---- MODULE Spec2Model ----
(***************************************************************************)
(* Coin stats resolution of coin-pulse (src/index.ts): the GET             *)
(* /image/:symbol handler and the three functions it drives,               *)
(* getCoinAddressBySymbol, getCoinData and getUniswapV3PoolAddress.        *)
(*                                                                         *)
(* Strings are sequences of UTF-16 code units (48 = "0", 52 = "4",         *)
(* 54 = "6", 65 = "A", 97 = "a", 120 = "x", ...), so that toLowerCase,     *)
(* toUpperCase, the `0x${...}` templates and the < comparison of strings   *)
(* are computed as JavaScript computes them.                               *)
(*                                                                         *)
(* Numbers are m * 2^e2 * 5^e5 with m coprime to 10 (or NaN): the values   *)
(* 2^96, 2^192 and 1e18 of the source do not fit a machine integer, but    *)
(* their products and quotients are exact in this form.                    *)
(*                                                                         *)
(* The subgraph and the RPC endpoint are the environment: `world` is what  *)
(* they hold, and every call may also be rejected (transport fault).  The  *)
(* argument validation of the RPC client library is not part of the        *)
(* repository; the model records the address each call is given and lets   *)
(* the endpoint answer it.                                                 *)
(***************************************************************************)
EXTENDS Integers, Sequences, FiniteSets, TLC

VARIABLES world, req

vars == <<world, req>>

\* ------------------------------------------------------------------ bounds

\* Length of the hex body of an address (40 on chain).
AddrLen == 2

\* Number of requests the server handles in one behaviour.
NumRequests == 2

Requests == 1..NumRequests

\* ----------------------------------------------------------------- strings

ToLowerCase(s) == [i \in DOMAIN s |-> IF s[i] \in 65..90 THEN s[i] + 32 ELSE s[i]]

ToUpperCase(s) == [i \in DOMAIN s |-> IF s[i] \in 97..122 THEN s[i] - 32 ELSE s[i]]

\* a < b on strings: code-unit lexicographic order.
StrLess(a, b) ==
    \/ /\ Len(a) < Len(b)
       /\ \A i \in 1..Len(a) : a[i] = b[i]
    \/ \E i \in 1..Len(a) :
          /\ i <= Len(b)
          /\ a[i] < b[i]
          /\ \A j \in 1..(i - 1) : a[j] = b[j]

\* The "0x" the template literals `0x${...}` put in front of their argument.
HexPrefix == <<48, 120>>

Template0x(s) == HexPrefix \o s

Zeros(n) == [i \in 1..n |-> 48]

\* "0x4200...0006", shortened to AddrLen hex digits.
WETH_ADDRESS == HexPrefix \o <<52>> \o Zeros(AddrLen - 2) \o <<54>>

\* "0x0000...0000"
ZERO_ADDRESS == HexPrefix \o Zeros(AddrLen)

FEE == 3000

\* ----------------------------------------------------------------- numbers

NaN == [nan |-> TRUE, m |-> 0, e2 |-> 0, e5 |-> 0]

Num(m, e2, e5) == [nan |-> FALSE, m |-> m, e2 |-> e2, e5 |-> e5]

Zero == Num(0, 0, 0)

\* a * b of JavaScript numbers (no infinities arise from the inputs used).
Mul(a, b) ==
    IF a.nan \/ b.nan THEN NaN
    ELSE IF a.m = 0 \/ b.m = 0 THEN Zero
    ELSE Num(a.m * b.m, a.e2 + b.e2, a.e5 + b.e5)

\* a / (2^d2 * 5^d5)
DivPow(a, d2, d5) ==
    IF a.nan THEN NaN
    ELSE IF a.m = 0 THEN Zero
    ELSE Num(a.m, a.e2 - d2, a.e5 - d5)

\* JSON / ABI values as they arrive: undefined, null or a number.
Undefined == [t |-> "undefined", v |-> Zero]

Null == [t |-> "null", v |-> Zero]

Val(n) == [t |-> "num", v |-> n]

\* Number(x): NaN for undefined, 0 for null.
Number(x) == IF x.t = "undefined" THEN NaN ELSE IF x.t = "null" THEN Zero ELSE x.v

\* x || 0 on a number: NaN and 0 are falsy.
OrZero(n) == IF n.nan \/ n.m = 0 THEN Zero ELSE n

\* BigInt(x) and formatEther(x) throw a TypeError on undefined and null.
Throws(x) == x.t # "num"

\* Number(formatEther(x)): the decimal string of x / 10^18, parsed back.
FormatEther(x) == DivPow(x.v, 18, 18)

\* ------------------------------------------------------- getUniswapV3PoolAddress

\* The conditional of [token0, token1]: a first when its lowercase form is
\* the lower string, else b first.
CanonicalOrderFlipped(a, b) ==
    IF StrLess(ToLowerCase(b), ToLowerCase(a)) THEN <<a, b>> ELSE <<b, a>>

CanonicalOrder(a, b) ==
    IF StrLess(ToLowerCase(a), ToLowerCase(b)) THEN <<a, b>> ELSE <<b, a>>

\* [token0, token1] for the token and WETH.
TokenPair(tokenAddress) == CanonicalOrder(tokenAddress, WETH_ADDRESS)

\* args: [`0x${token0}`, `0x${token1}`, 3000]
GetPoolArgs(tokenAddress) ==
    <<Template0x(TokenPair(tokenAddress)[1]), Template0x(TokenPair(tokenAddress)[2]), FEE>>

\* The factory's answer passed on without the zero-address test.
PoolResultUnchecked(poolAddress) == poolAddress

\* null (the empty string here) for the zero address, else the address.
PoolResult(poolAddress) ==
    IF poolAddress = ZERO_ADDRESS THEN <<>> ELSE poolAddress

\* The address slot0 and liquidity are read on: `0x${poolAddress}`.
PoolReadAddress(poolAddress) == Template0x(poolAddress)

\* ------------------------------------------------------------ getCoinData maths

\* Number(coins[0].totalSupply) / 1e18
TotalSupplyOf(coin) == DivPow(Number(coin.totalSupply), 18, 18)

\* Number(coins[0].holderCount) || 0
HolderCountOf(coin) == OrZero(Number(coin.holderCount))

\* The price ratio without the 1e18 factor.
PriceOfUnscaled(sqrtPriceX96) == DivPow(Mul(sqrtPriceX96, sqrtPriceX96), 192, 0)

\* (Number(sqrtPriceX96) ** 2 / 2 ** 192) * 1e18
PriceOf(sqrtPriceX96) ==
    Mul(DivPow(Mul(sqrtPriceX96, sqrtPriceX96), 192, 0), Num(1, 18, 18))

\* Number(formatEther(liquidity)) * price
LiquidityEthOf(liquidity, price) == Mul(FormatEther(liquidity), price)

\* liquidityEth * 0.1
Volume24hOf(liquidityEth) == Mul(liquidityEth, Num(1, -1, -1))

\* getCoinData giving up on a falsy liquidity (if (!liquidity) return null).
StatsOfFalsyLiquidity(sqrtPriceX96, liquidity, totalSupply, holderCount) ==
    IF Throws(sqrtPriceX96) \/ Throws(liquidity) \/ liquidity.v.m = 0 THEN <<>>
    ELSE <<[price      |-> PriceOf(sqrtPriceX96.v),
            volume24h  |-> Volume24hOf(LiquidityEthOf(liquidity, PriceOf(sqrtPriceX96.v))),
            liquidity  |-> LiquidityEthOf(liquidity, PriceOf(sqrtPriceX96.v)),
            holderCount |-> holderCount,
            marketCap  |-> Mul(PriceOf(sqrtPriceX96.v), totalSupply)]>>

\* getCoinData reading a missing liquidity as 0 (liquidity ?? 0n).
StatsOfDefaultLiquidity(sqrtPriceX96, liquidity, totalSupply, holderCount) ==
    IF Throws(sqrtPriceX96) THEN <<>>
    ELSE <<[price      |-> PriceOf(sqrtPriceX96.v),
            volume24h  |-> IF Throws(liquidity) THEN Zero
                           ELSE Volume24hOf(LiquidityEthOf(liquidity, PriceOf(sqrtPriceX96.v))),
            liquidity  |-> IF Throws(liquidity) THEN Zero
                           ELSE LiquidityEthOf(liquidity, PriceOf(sqrtPriceX96.v)),
            holderCount |-> holderCount,
            marketCap  |-> Mul(PriceOf(sqrtPriceX96.v), totalSupply)]>>

\* The body of getCoinData after Promise.all resolved: <<>> when BigInt() or
\* formatEther() throws (the catch returns null), else the one record.
StatsOf(sqrtPriceX96, liquidity, totalSupply, holderCount) ==
    IF Throws(sqrtPriceX96) \/ Throws(liquidity) THEN <<>>
    ELSE <<[price      |-> PriceOf(sqrtPriceX96.v),
            volume24h  |-> Volume24hOf(LiquidityEthOf(liquidity, PriceOf(sqrtPriceX96.v))),
            liquidity  |-> LiquidityEthOf(liquidity, PriceOf(sqrtPriceX96.v)),
            holderCount |-> holderCount,
            marketCap  |-> Mul(PriceOf(sqrtPriceX96.v), totalSupply)]>>

\* ------------------------------------------------------------- the environment

\* Request symbols: "z", "Z" and "q"; the subgraph knows one coin, "Z".
Symbols == {<<122>>, <<90>>, <<113>>}

COIN_SYMBOL == <<90>>

\* Hex digits the coin address is drawn from: "0", "4", "6", "A", "a".
HexDigits == {48, 52, 54, 65, 97}

Addresses == {HexPrefix \o b : b \in [1..AddrLen -> HexDigits]}

\* A pool address the factory may return: "0xa0...0".
POOL_ADDRESS == HexPrefix \o <<97>> \o Zeros(AddrLen - 1)

\* totalSupply: undefined, null, 2 * 10^18.
TotalSupplies == {Undefined, Null, Val(Num(1, 19, 18))}

\* holderCount: undefined, 7.
HolderCounts == {Undefined, Val(Num(7, 0, 0))}

MetaCoins ==
    {<<>>} \cup {<<c>> : c \in [totalSupply : TotalSupplies, holderCount : HolderCounts]}

\* sqrtPriceX96: missing, 2^96, 3 * 2^95.
SqrtPrices == {Undefined, Val(Num(1, 96, 0)), Val(Num(3, 95, 0))}

\* liquidity: missing, 0, 10^18.
Liquidities == {Undefined, Val(Zero), Val(Num(1, 18, 18))}

\* One request against every content of the subgraph and the chain, or
\* NumRequests interleaved requests against a few contents.
Worlds ==
    [load : {1}, address : Addresses, coins : MetaCoins,
     pool : {ZERO_ADDRESS, POOL_ADDRESS}, sqrtPriceX96 : SqrtPrices,
     liquidity : Liquidities]
    \cup
    [load : {NumRequests}, address : {HexPrefix \o <<65>> \o Zeros(AddrLen - 1)},
     coins : {<<[totalSupply |-> Val(Num(1, 19, 18)), holderCount |-> Undefined]>>},
     pool : {ZERO_ADDRESS, POOL_ADDRESS}, sqrtPriceX96 : {Val(Num(1, 96, 0))},
     liquidity : {Val(Zero), Val(Num(1, 18, 18))}]

NoResp == [kind |-> "none"]

\* What request(ZORA_SUBGRAPH_URL, GetCoinBySymbol, {symbol}) may give.
SymbolAnswers(symbol) ==
    {[kind |-> "reject", coins |-> <<>>], [kind |-> "malformed", coins |-> <<>>],
     [kind |-> "ok",
      coins |-> IF symbol = COIN_SYMBOL THEN <<[address |-> world.address]>> ELSE <<>>]}

\* What request(ZORA_SUBGRAPH_URL, GetCoinData, {address}) may give.
MetaAnswers(address) ==
    {[kind |-> "reject", coins |-> <<>>], [kind |-> "malformed", coins |-> <<>>],
     [kind |-> "ok",
      coins |-> IF address = ToLowerCase(world.address) THEN world.coins ELSE <<>>]}

\* What readContract(getPool) may give.
PoolAnswers ==
    {[kind |-> "reject", value |-> <<>>], [kind |-> "ok", value |-> world.pool]}

\* What readContract(slot0) and readContract(liquidity) may give.
Slot0Answers ==
    {[kind |-> "reject", value |-> Undefined], [kind |-> "ok", value |-> world.sqrtPriceX96]}

LiquidityAnswers ==
    {[kind |-> "reject", value |-> Undefined], [kind |-> "ok", value |-> world.liquidity]}

\* ------------------------------------------------------------------ requests

Call(fn, args) == [fn |-> fn, args |-> args]

IdleRequest ==
    [pc |-> "idle", symbol |-> <<>>, coinAddress |-> <<>>,
     totalSupply |-> NaN, holderCount |-> NaN, poolAddress |-> <<>>,
     symbolResp |-> NoResp, metaResp |-> NoResp, poolResp |-> NoResp,
     slot0Resp |-> NoResp, liquidityResp |-> NoResp,
     calls |-> <<>>, outcome |-> "none", cause |-> "none", stats |-> <<>>]

\* c.text("Coin not found", 404)
NotFound404(q, cause) == [q EXCEPT !.pc = "done", !.outcome = "404", !.cause = cause]

\* c.text("Error fetching data", 500)
Error500(q, cause) == [q EXCEPT !.pc = "done", !.outcome = "500", !.cause = cause]

\* new ImageResponse(...) of the formatted stats.
Image200(q, stats) == [q EXCEPT !.pc = "done", !.outcome = "200", !.stats = stats]

Init ==
    /\ world \in Worlds
    /\ req = [r \in Requests |-> IdleRequest]

\* ------------------------------------------------------------------- handlers

\* getCoinAddressBySymbol's return: coins[0].address, or null (the empty
\* string here) for an empty list and in the catch.
getCoinAddressBySymbol(resp) ==
    IF resp.kind = "ok" /\ Len(resp.coins) > 0 THEN resp.coins[1].address ELSE <<>>

\* GET /image/:symbol serving the address of a symbol an earlier request
\* resolved from a process-wide cache.
StartSymbolLookupCached(q, symbol) ==
    IF \E o \in Requests : /\ ToUpperCase(req[o].symbol) = ToUpperCase(symbol)
                           /\ req[o].coinAddress # <<>>
    THEN [q EXCEPT !.pc = "metaLookup", !.symbol = symbol,
                   !.coinAddress = world.address,
                   !.calls = <<Call("getCoinMeta", <<ToLowerCase(world.address)>>)>>]
    ELSE [q EXCEPT !.pc = "symbolLookup", !.symbol = symbol,
                   !.calls = <<Call("findCoinBySymbol", <<ToUpperCase(symbol)>>)>>]

\* GET /image/:symbol up to its first await: the subgraph is asked for
\* symbol.toUpperCase().
StartSymbolLookup(q, symbol) ==
    [q EXCEPT !.pc = "symbolLookup", !.symbol = symbol,
              !.calls = <<Call("findCoinBySymbol", <<ToUpperCase(symbol)>>)>>]

\* getCoinData up to its first await: the subgraph is asked for
\* coinAddress.toLowerCase().
StartGetCoinData(q) ==
    [q EXCEPT !.pc = "metaLookup",
              !.calls = Append(@, Call("getCoinMeta", <<ToLowerCase(q.coinAddress)>>))]

\* The handler letting a subgraph fault of the symbol lookup through as a 500.
AfterSymbolLookupRethrow(q) ==
    IF getCoinAddressBySymbol(q.symbolResp) = <<>>
    THEN IF q.symbolResp.kind = "ok" THEN NotFound404(q, "SymbolNotFound")
                                     ELSE Error500(q, "SymbolUpstream")
    ELSE StartGetCoinData([q EXCEPT !.coinAddress = getCoinAddressBySymbol(q.symbolResp)])

\* The handler after getCoinAddressBySymbol returned.
AfterSymbolLookup(q) ==
    IF getCoinAddressBySymbol(q.symbolResp) = <<>>
    THEN NotFound404(q, IF q.symbolResp.kind = "ok" THEN "SymbolNotFound"
                                                     ELSE "SymbolUpstream")
    ELSE StartGetCoinData([q EXCEPT !.coinAddress = getCoinAddressBySymbol(q.symbolResp)])

\* getUniswapV3PoolAddress up to its await: getPool on the factory.
StartPoolLookup(q) ==
    [q EXCEPT !.pc = "poolLookup",
              !.calls = Append(@, Call("getPool", GetPoolArgs(q.coinAddress)))]

\* getCoinData asking the subgraph again after a rejected metadata query.
AfterMetaLookupRetry(q) ==
    IF q.metaResp.kind = "reject"
    THEN [q EXCEPT !.calls = Append(@, Call("getCoinMeta", <<ToLowerCase(q.coinAddress)>>))]
    ELSE IF q.metaResp.kind # "ok" THEN Error500(q, "MetaUpstream")
    ELSE IF q.metaResp.coins = <<>> THEN Error500(q, "MetaMissing")
    ELSE StartPoolLookup([q EXCEPT !.totalSupply = TotalSupplyOf(q.metaResp.coins[1]),
                                   !.holderCount = HolderCountOf(q.metaResp.coins[1])])

\* getCoinData after the metadata query returned.
AfterMetaLookup(q) ==
    IF q.metaResp.kind # "ok" THEN Error500(q, "MetaUpstream")
    ELSE IF q.metaResp.coins = <<>> THEN Error500(q, "MetaMissing")
    ELSE StartPoolLookup([q EXCEPT !.totalSupply = TotalSupplyOf(q.metaResp.coins[1]),
                                   !.holderCount = HolderCountOf(q.metaResp.coins[1])])

\* Promise.all([readContract(slot0), readContract(liquidity)]): both reads
\* are issued before the await.
StartChainRead(q) ==
    [q EXCEPT !.pc = "chainRead",
              !.slot0Resp = [kind |-> "pending"],
              !.liquidityResp = [kind |-> "pending"],
              !.calls = @ \o <<Call("slot0", <<PoolReadAddress(q.poolAddress)>>),
                               Call("liquidity", <<PoolReadAddress(q.poolAddress)>>)>>]

\* getUniswapV3PoolAddress's return: null in the catch.
getUniswapV3PoolAddress(resp) ==
    IF resp.kind = "ok" THEN PoolResult(resp.value) ELSE <<>>

\* getCoinData after getUniswapV3PoolAddress returned.
AfterPoolLookup(q) ==
    IF getUniswapV3PoolAddress(q.poolResp) = <<>>
    THEN Error500(q, IF q.poolResp.kind = "ok" THEN "PoolNotFound" ELSE "PoolReadFault")
    ELSE StartChainRead([q EXCEPT !.poolAddress = getUniswapV3PoolAddress(q.poolResp)])

\* Promise.allSettled in place of Promise.all: a rejected liquidity read is
\* taken as 0 once slot0 is there.
AfterChainReadSettled(q) ==
    IF q.slot0Resp.kind = "reject" THEN Error500(q, "ChainReadError")
    ELSE IF q.slot0Resp.kind = "ok" /\ q.liquidityResp.kind \in {"ok", "reject"}
    THEN IF StatsOf(q.slot0Resp.value,
                    IF q.liquidityResp.kind = "ok" THEN q.liquidityResp.value ELSE Val(Zero),
                    q.totalSupply, q.holderCount) = <<>>
         THEN Error500(q, "ValueMissing")
         ELSE Image200(q, StatsOf(q.slot0Resp.value,
                    IF q.liquidityResp.kind = "ok" THEN q.liquidityResp.value ELSE Val(Zero),
                    q.totalSupply, q.holderCount))
    ELSE q

\* Promise.all after one of the reads settled: rejected as soon as one read
\* is, fulfilled when both are; the rest of getCoinData runs then.
AfterChainRead(q) ==
    IF q.slot0Resp.kind = "reject" \/ q.liquidityResp.kind = "reject"
    THEN Error500(q, "ChainReadError")
    ELSE IF q.slot0Resp.kind = "ok" /\ q.liquidityResp.kind = "ok"
    THEN IF StatsOf(q.slot0Resp.value, q.liquidityResp.value,
                    q.totalSupply, q.holderCount) = <<>>
         THEN Error500(q, "ValueMissing")
         ELSE Image200(q, StatsOf(q.slot0Resp.value, q.liquidityResp.value,
                                  q.totalSupply, q.holderCount))
    ELSE q

\* -------------------------------------------------------------------- actions

ImageRequest(r) ==
    /\ req[r].pc = "idle"
    /\ r <= world.load
    /\ \E symbol \in Symbols :
          req' = [req EXCEPT ![r] = StartSymbolLookup(@, symbol)]
    /\ UNCHANGED world

SymbolResponse(r) ==
    /\ req[r].pc = "symbolLookup"
    /\ \E resp \in SymbolAnswers(req[r].calls[1].args[1]) :
          req' = [req EXCEPT ![r] = AfterSymbolLookup([@ EXCEPT !.symbolResp = resp])]
    /\ UNCHANGED world

MetaResponse(r) ==
    /\ req[r].pc = "metaLookup"
    /\ \E resp \in MetaAnswers(req[r].calls[2].args[1]) :
          req' = [req EXCEPT ![r] = AfterMetaLookup([@ EXCEPT !.metaResp = resp])]
    /\ UNCHANGED world

PoolResponse(r) ==
    /\ req[r].pc = "poolLookup"
    /\ \E resp \in PoolAnswers :
          req' = [req EXCEPT ![r] = AfterPoolLookup([@ EXCEPT !.poolResp = resp])]
    /\ UNCHANGED world

Slot0Response(r) ==
    /\ req[r].pc = "chainRead"
    /\ req[r].slot0Resp.kind = "pending"
    /\ \E resp \in Slot0Answers :
          req' = [req EXCEPT ![r] = AfterChainRead([@ EXCEPT !.slot0Resp = resp])]
    /\ UNCHANGED world

LiquidityResponse(r) ==
    /\ req[r].pc = "chainRead"
    /\ req[r].liquidityResp.kind = "pending"
    /\ \E resp \in LiquidityAnswers :
          req' = [req EXCEPT ![r] = AfterChainRead([@ EXCEPT !.liquidityResp = resp])]
    /\ UNCHANGED world

Next ==
    \E r \in Requests :
        \/ ImageRequest(r)
        \/ SymbolResponse(r)
        \/ MetaResponse(r)
        \/ PoolResponse(r)
        \/ Slot0Response(r)
        \/ LiquidityResponse(r)

Spec == Init /\ [][Next]_vars


\* --------------------------------------------------------------------- claims

Failed(q) == q.pc = "done" /\ q.outcome # "200"

\* The functions a request has called, in call order.
Fns(q) == [i \in 1..Len(q.calls) |-> q.calls[i].fn]

PipelineOrder == <<"findCoinBySymbol", "getCoinMeta", "getPool", "slot0", "liquidity">>

\* The responses a request has received.
Responses(q) == <<q.symbolResp, q.metaResp, q.poolResp, q.slot0Resp, q.liquidityResp>>

\* The symbol lookup gave no address: rejected, unparsable, or no coin.
SymbolUnusable(q) == q.symbolResp.kind \in {"reject", "malformed"}
                     \/ (q.symbolResp.kind = "ok" /\ q.symbolResp.coins = <<>>)

MetaUnusable(q) == q.metaResp.kind \in {"reject", "malformed"}
                   \/ (q.metaResp.kind = "ok" /\ q.metaResp.coins = <<>>)

PoolUnusable(q) == q.poolResp.kind = "reject"
                   \/ (q.poolResp.kind = "ok" /\ q.poolResp.value = ZERO_ADDRESS)

ReadRejected(q) == q.slot0Resp.kind = "reject" \/ q.liquidityResp.kind = "reject"

BothRead(q) == q.slot0Resp.kind = "ok" /\ q.liquidityResp.kind = "ok"

\* The error kind of section 7 a cause falls under ("" where the taxonomy
\* does not say).
ErrorKind(cause) ==
    CASE cause = "SymbolNotFound" -> "SymbolNotFound"
      [] cause \in {"SymbolUpstream", "MetaUpstream"} -> "UpstreamError"
      [] cause = "PoolNotFound" -> "PoolNotFound"
      [] cause = "ChainReadError" -> "ChainReadError"
      [] OTHER -> ""

C2_ZeroPoolFails ==
    \A r \in Requests :
        (req[r].poolResp.kind = "ok" /\ req[r].poolResp.value = ZERO_ADDRESS) =>
            /\ Failed(req[r])
            /\ req[r].stats = <<>>
            /\ req[r].poolAddress # ZERO_ADDRESS
            /\ \A i \in 1..Len(req[r].calls) :
                  req[r].calls[i].fn \notin {"slot0", "liquidity"}

C2_Witness ==
    \E r \in Requests :
        /\ req[r].coinAddress # <<>>
        /\ req[r].poolResp.kind = "ok"
        /\ req[r].poolResp.value = ZERO_ADDRESS
        /\ req[r].pc = "done"

\* C3: for a coin address other than WETH, the pair given to getPool has the
\* lower lowercase string first, consists of the coin and WETH whichever of
\* them is lower, and ordering the ordered pair again leaves it unchanged.
C3_CanonicalPair ==
    \A r \in Requests :
        (Len(req[r].calls) >= 3 /\ req[r].coinAddress # WETH_ADDRESS) =>
            LET pair == TokenPair(req[r].coinAddress)
                args == req[r].calls[3].args
            IN /\ StrLess(ToLowerCase(pair[1]), ToLowerCase(pair[2]))
               /\ StrLess(ToLowerCase(args[1]), ToLowerCase(args[2]))
               /\ {pair[1], pair[2]} = {req[r].coinAddress, WETH_ADDRESS}
               /\ CanonicalOrder(WETH_ADDRESS, req[r].coinAddress) = pair
               /\ CanonicalOrder(pair[1], pair[2]) = pair

\* A coin above WETH: the pair is swapped.
C3_Witness ==
    \E r \in Requests :
        /\ Len(req[r].calls) >= 3
        /\ StrLess(ToLowerCase(WETH_ADDRESS), ToLowerCase(req[r].coinAddress))
        /\ req[r].calls[3].args[2] = Template0x(req[r].coinAddress)

\* sqrtPriceX96 = 2^96 and totalSupply = 2 * 10^18 were read and stats made.
Fixture(q) ==
    /\ q.outcome = "200"
    /\ q.slot0Resp.value = Val(Num(1, 96, 0))
    /\ q.metaResp.coins[1].totalSupply = Val(Num(1, 19, 18))

\* C4 as stated: for the fixture, price is 1.0 and marketCap is 2.0.
C4_FixtureUnitPrice ==
    \A r \in Requests :
        Fixture(req[r]) => /\ req[r].stats[1].price = Num(1, 0, 0)
                           /\ req[r].stats[1].marketCap = Num(1, 1, 0)

\* C4 amended: for the fixture, price is 10^18 and marketCap is 2 * 10^18.
C4_FixtureScaledPrice ==
    \A r \in Requests :
        Fixture(req[r]) => /\ req[r].stats[1].price = Num(1, 18, 18)
                           /\ req[r].stats[1].marketCap = Num(1, 19, 18)

C4_Witness == \E r \in Requests : Fixture(req[r]) /\ req[r].pc = "done"

\* Both reads returned, with a sqrtPriceX96.
ReadsIn(q) == BothRead(q) /\ ~Throws(q.slot0Resp.value)

\* C5 as stated: a liquidity read of zero or of no value still succeeds, with
\* liquidity 0 and volume24h 0.
C5_ZeroOrMissingLiquidity ==
    \A r \in Requests :
        (ReadsIn(req[r]) /\ req[r].liquidityResp.value \in {Val(Zero), Undefined}) =>
            /\ req[r].outcome = "200"
            /\ req[r].stats[1].liquidity = Zero
            /\ req[r].stats[1].volume24h = Zero

\* C5 amended: a liquidity read of zero succeeds with liquidity 0 and
\* volume24h 0 whatever the price; a liquidity read of no value fails the
\* resolution.
C5_ZeroLiquidity ==
    \A r \in Requests :
        ReadsIn(req[r]) =>
            /\ req[r].liquidityResp.value = Val(Zero) =>
                  /\ req[r].outcome = "200"
                  /\ req[r].stats[1].liquidity = Zero
                  /\ req[r].stats[1].volume24h = Zero
            /\ req[r].liquidityResp.value = Undefined =>
                  /\ req[r].outcome = "500"
                  /\ req[r].stats = <<>>

C5_Witness ==
    \E r \in Requests :
        /\ ReadsIn(req[r])
        /\ req[r].liquidityResp.value = Val(Zero)
        /\ req[r].slot0Resp.value = Val(Num(3, 95, 0))
        /\ req[r].outcome = "200"

C7_NoSharedState ==
    /\ \A a, b \in Requests :
          (/\ req[a].pc = "done" /\ req[b].pc = "done"
           /\ req[a].symbol = req[b].symbol
           /\ Responses(req[a]) = Responses(req[b]))
          => /\ req[a].outcome = req[b].outcome
             /\ req[a].stats = req[b].stats
             /\ req[a].calls = req[b].calls
    /\ \A r \in Requests :
          /\ req[r].pc # "idle" =>
                /\ Len(req[r].calls) >= 1
                /\ req[r].calls[1] = Call("findCoinBySymbol", <<ToUpperCase(req[r].symbol)>>)
          /\ req[r].coinAddress # <<>> =>
                /\ req[r].symbolResp.kind = "ok"
                /\ req[r].coinAddress = req[r].symbolResp.coins[1].address
          /\ req[r].outcome = "200" => Fns(req[r]) = PipelineOrder

\* Two resolutions of the same symbol, both with stats.
C7_Witness ==
    \E a, b \in Requests :
        /\ a # b
        /\ req[a].symbol = req[b].symbol
        /\ req[a].outcome = "200" /\ req[b].outcome = "200"
        /\ Fns(req[a]) = PipelineOrder /\ Fns(req[b]) = PipelineOrder

\* C8: the calls of a resolution are a prefix of the fixed order (slot0 and
\* liquidity entering together), so none is issued twice; a call is there
\* only if every earlier call returned a usable value, and a resolution whose
\* step failed has issued no call after that step.
C8_FixedOrderNoRetry ==
    \A r \in Requests :
        LET n == Len(req[r].calls) IN
        /\ n \in {0, 1, 2, 3, 5}
        /\ Fns(req[r]) = SubSeq(PipelineOrder, 1, n)
        /\ n >= 2 => (req[r].symbolResp.kind = "ok" /\ req[r].symbolResp.coins # <<>>)
        /\ n >= 3 => (req[r].metaResp.kind = "ok" /\ req[r].metaResp.coins # <<>>)
        /\ n >= 4 => (req[r].poolResp.kind = "ok" /\ req[r].poolResp.value # ZERO_ADDRESS)
        /\ (req[r].symbolResp.kind # "none" /\ SymbolUnusable(req[r])) => n = 1
        /\ (req[r].metaResp.kind # "none" /\ MetaUnusable(req[r])) => n = 2
        /\ (req[r].poolResp.kind # "none" /\ PoolUnusable(req[r])) => n = 3

\* A resolution stopped by a rejected metadata query after two calls.
C8_Witness ==
    \E r \in Requests :
        /\ req[r].pc = "done"
        /\ req[r].metaResp.kind = "reject"
        /\ Len(req[r].calls) = 2

\* C9: slot0 and liquidity are issued together, stats exist only when both
\* reads returned, and once either read is rejected the resolution has failed
\* without stats, whichever read settled first.
C9_BothReadsOrFailure ==
    \A r \in Requests :
        /\ (\E i \in 1..Len(req[r].calls) : req[r].calls[i].fn = "slot0")
              <=> (\E i \in 1..Len(req[r].calls) : req[r].calls[i].fn = "liquidity")
        /\ req[r].pc = "chainRead" =>
              /\ req[r].slot0Resp.kind \in {"pending", "ok"}
              /\ req[r].liquidityResp.kind \in {"pending", "ok"}
        /\ req[r].outcome = "200" => BothRead(req[r])
        /\ ReadRejected(req[r]) =>
              /\ req[r].pc = "done"
              /\ req[r].outcome = "500"
              /\ req[r].stats = <<>>

\* slot0 returned first, then liquidity was rejected.
C9_Witness ==
    \E r \in Requests :
        /\ req[r].slot0Resp.kind = "ok"
        /\ req[r].slot0Resp.value.t = "num"
        /\ req[r].liquidityResp.kind = "reject"
        /\ req[r].pc = "done"

\* C10: the addresses given to getPool are exactly the coin address of the
\* subgraph and the WETH address, and slot0 and liquidity are read on exactly
\* the pool address getPool returned.
C10_AddressesUnchanged ==
    \A r \in Requests :
        /\ Len(req[r].calls) >= 3 =>
              {req[r].calls[3].args[1], req[r].calls[3].args[2]}
                  = {req[r].symbolResp.coins[1].address, WETH_ADDRESS}
        /\ Len(req[r].calls) >= 5 =>
              /\ req[r].calls[4].args[1] = req[r].poolResp.value
              /\ req[r].calls[5].args[1] = req[r].poolResp.value

====
